---- MODULE Spec2Model ----
(***************************************************************************)
(* Model of the URL checker (src/src/url_checker.py, and its twin          *)
(* src/web_scraper_latest.py): runs of main() that share one sqlite        *)
(* database.  Each run loads a URL file, filters out the URLs already in   *)
(* the results table, fetches the others on a thread pool, commits each    *)
(* result from the as_completed loop, closes its connection and exports    *)
(* the table to CSV.                                                       *)
(***************************************************************************)
EXTENDS Integers, Sequences, FiniteSets, TLC

\* ------------------------------------------------------------------ bounds
NumRuns == 2        \* runs of main() against the same results.db
MaxWorkers == 2     \* largest --workers value tried
MaxScripts == 0     \* largest number of <script> tags a page has
MaxFileLen == 2     \* largest number of tokens in the URL file
MaxContentLen == 5  \* largest number of characters in the URL file

Runs == 1..NumRuns
Urls == {"http://a.test", "http://b.test"}

\* script_count = None (SQL NULL)
None == -1

\* ------------------------------------------------------ input file contents
SeqsUpTo(S, n) == UNION {[1..k -> S] : k \in 0..n}
Files == SeqsUpTo(Urls, MaxFileLen)
\* open() raising FileNotFoundError / PermissionError
Missing == <<"<missing>">>

\* load_urls: content.strip().split() then list(set(urls))
load_urls(content) == {content[i] : i \in DOMAIN content}

\* the text of a file: characters of URLs and whitespace
Whitespace == {" ", "\n"}
Chars == {"a", "b"} \cup Whitespace
Texts == SeqsUpTo(Chars, MaxContentLen)

\* str.strip(): leading and trailing whitespace removed
RECURSIVE lstrip(_)
lstrip(text) ==
    IF text # <<>> /\ Head(text) \in Whitespace THEN lstrip(Tail(text))
    ELSE text
RECURSIVE rstrip(_)
rstrip(text) ==
    IF text # <<>> /\ text[Len(text)] \in Whitespace
    THEN rstrip(SubSeq(text, 1, Len(text) - 1))
    ELSE text
strip(text) == rstrip(lstrip(text))

\* the first run of non-whitespace characters of a text that starts with one
RECURSIVE Word(_)
Word(text) ==
    IF text = <<>> \/ Head(text) \in Whitespace THEN <<>>
    ELSE <<Head(text)>> \o Word(Tail(text))

\* str.split(): the runs of non-whitespace characters, in order
RECURSIVE split(_)
split(text) ==
    LET t == lstrip(text)
    IN  IF t = <<>> THEN <<>>
        ELSE <<Word(t)>> \o split(SubSeq(t, Len(Word(t)) + 1, Len(t)))

\* list(S): the elements of S, each once, in some order
ListsOf(S) ==
    {l \in [1..Cardinality(S) -> S] : {l[i] : i \in DOMAIN l} = S}

\* return urls, without set()
load_urls_list_raw(tokens) == {tokens}

\* the lists load_urls can return for the tokens of the file
load_urls_list(tokens) == ListsOf(load_urls(tokens))

\* ------------------------------------------------------------ the database
\* the results table is the sequence of its rows in scan (rowid) order
Row(u, c, s) == [url |-> u, script_count |-> c, status |-> s]

\* SELECT url FROM results WHERE status = 'Success'
get_processed_urls_success(table) ==
    {table[i].url : i \in {j \in DOMAIN table : table[j].status = "Success"}}

\* get_processed_urls: SELECT url FROM results
get_processed_urls(table) == {table[i].url : i \in DOMAIN table}

\* INSERT OR IGNORE in place of REPLACE: the stored row wins
save_result_ignore(table, row) ==
    IF \E i \in DOMAIN table : table[i].url = row.url THEN table
    ELSE table \o <<row>>

\* REPLACE INTO results on PRIMARY KEY url: the conflicting row is deleted,
\* the new row is inserted
save_result(table, row) ==
    SelectSeq(table, LAMBDA x : x.url # row.url) \o <<row>>

\* COMMIT of a transaction holding the statements stmts, in order
RECURSIVE ApplyAll(_, _)
ApplyAll(table, stmts) ==
    IF stmts = <<>> THEN table
    ELSE ApplyAll(save_result(table, Head(stmts)), Tail(stmts))

RowsOf(table, u) == {i \in DOMAIN table : table[i].url = u}

\* ------------------------------------------------------------- the fetcher
\* what requests.get / raise_for_status / BeautifulSoup do for one attempt:
\* a 2xx page with n script tags, a RequestException, or another exception
Responses ==
    {[type |-> "ok", scripts |-> n] : n \in 0..MaxScripts}
    \cup {[type |-> "RequestException", scripts |-> 0],
          [type |-> "Exception", scripts |-> 0]}

\* process_url with script_count = 0 in the except branch
process_url_zero(url, resp) ==
    IF resp.type = "ok"
    THEN [raised |-> FALSE, url |-> url, script_count |-> resp.scripts,
          status |-> "Success"]
    ELSE IF resp.type = "RequestException"
    THEN [raised |-> FALSE, url |-> url, script_count |-> 0,
          status |-> "Failed"]
    ELSE [raised |-> TRUE, url |-> url, script_count |-> None,
          status |-> "Exception"]

\* process_url returning response.url, the address after redirects
process_url_redirected(url, resp) ==
    IF resp.type = "ok"
    THEN [raised |-> FALSE, url |-> CHOOSE v \in Urls : v # url,
          script_count |-> resp.scripts, status |-> "Success"]
    ELSE IF resp.type = "RequestException"
    THEN [raised |-> FALSE, url |-> url, script_count |-> None,
          status |-> "Failed"]
    ELSE [raised |-> TRUE, url |-> url, script_count |-> None,
          status |-> "Exception"]

\* process_url: the state of the future once the call has ended
process_url(url, resp) ==
    IF resp.type = "ok"
    THEN [raised |-> FALSE, url |-> url, script_count |-> resp.scripts,
          status |-> "Success"]
    ELSE IF resp.type = "RequestException"
    THEN [raised |-> FALSE, url |-> url, script_count |-> None,
          status |-> "Failed"]
    ELSE [raised |-> TRUE, url |-> url, script_count |-> None,
          status |-> "Exception"]

NoResult == [raised |-> FALSE, url |-> "", script_count |-> None,
             status |-> "NoResult"]

\* --------------------------------------------------------------- the pool
Min(a, b) == IF a < b THEN a ELSE b

\* a pool that spawns a thread per submitted call
PoolThreads_unbounded(max_workers, submitted) == submitted

\* a pool that keeps one of its threads back
PoolThreads_short(max_workers, submitted) == Min(max_workers, submitted) - 1

\* ThreadPoolExecutor(max_workers): a thread is spawned per submit until
\* max_workers threads exist
PoolThreads(max_workers, submitted) == Min(max_workers, submitted)

\* the filter left out
UrlsToProcess_all(us, processed) == us

\* urls_to_process = [url for url in urls if url not in processed_urls]
UrlsToProcess(us, processed) == us \ processed

VARIABLES
    db,               \* committed rows of results.db
    pc,               \* where each run of main() is
    workers,          \* args.workers
    urls,             \* load_urls(args.url_file)
    processed_urls,   \* get_processed_urls(cursor)
    urls_to_process,
    threads,          \* worker threads of the executor
    fstate,           \* per future: "none", "queued", "running", "finished"
    fresult,          \* per future: what process_url returned or raised
    yielded,          \* futures as_completed has handed to the loop
    cstate,           \* the loop body: "wait" (line 189) or "commit" (line 194)
    txn,              \* uncommitted statements of the run's connection
    errlog,           \* 'Unexpected error processing {url}: {e}' lines
    csv,              \* the exported file, as its rows
    committed,        \* per run: URLs whose row the run committed
    lastWrite,        \* per URL: the row and run of the latest commit
    pred,             \* per run: the runs that had completed when it started
    stdout,           \* per run: what main() printed
    url_file,         \* per run: "unread", "read", or "missing" (open() raised)
    file_content,     \* load_urls: file.read(), the text of the URL file
    split_urls,       \* load_urls: content.strip().split()
    url_list,         \* load_urls: the returned list
    submit_count,     \* calls of executor.submit per URL
    lpc               \* where load_urls and the submission are

mainvars == <<db, pc, workers, urls, processed_urls, urls_to_process, threads,
              fstate, fresult, yielded, cstate, txn, errlog, csv, committed,
              lastWrite, pred, stdout, url_file>>
loadvars == <<file_content, split_urls, url_list, submit_count, lpc>>
vars == <<mainvars, loadvars>>

NoWrite == [run |-> 0, row |-> Row("", None, "")]

MainInit ==
    /\ db = <<>>
    /\ pc = [r \in Runs |-> "idle"]
    /\ workers = [r \in Runs |-> 1]
    /\ urls = [r \in Runs |-> {}]
    /\ processed_urls = [r \in Runs |-> {}]
    /\ urls_to_process = [r \in Runs |-> {}]
    /\ threads = [r \in Runs |-> 0]
    /\ fstate = [r \in Runs |-> [u \in Urls |-> "none"]]
    /\ fresult = [r \in Runs |-> [u \in Urls |-> NoResult]]
    /\ yielded = [r \in Runs |-> {}]
    /\ cstate = [r \in Runs |-> "wait"]
    /\ txn = [r \in Runs |-> <<>>]
    /\ errlog = [r \in Runs |-> {}]
    /\ csv = [r \in Runs |-> <<>>]
    /\ committed = [r \in Runs |-> {}]
    /\ lastWrite = [u \in Urls |-> NoWrite]
    /\ pred = [r \in Runs |-> {}]
    /\ stdout = [r \in Runs |-> <<>>]
    /\ url_file = [r \in Runs |-> "unread"]

\* no file is being loaded apart from the runs
LoadIdle ==
    /\ file_content = <<>>
    /\ split_urls = <<>>
    /\ url_list = <<>>
    /\ submit_count = <<>>
    /\ lpc = "idle"

Init == MainInit /\ LoadIdle

InFlight(r) == {u \in Urls : fstate[r][u] = "running"}

\* ------------------------------------------------------------------ main()
\* print(): a line of standard output, with the number it formats
Msg(text, n) == [msg |-> text, n |-> n]
AllProcessed == Msg("All URLs have been processed.", 0)
Starting(n) == Msg("Starting processing of {n} URLs...", n)
Exported == Msg("Results exported to {csv_file_path}", 0)
Completed == Msg("Processing completed.", 0)
Interrupted == Msg("Script interrupted by user.", 0)

\* main() returning right after 'All URLs have been processed.'
AfterFilter_return(todo) == IF todo = {} THEN "done" ELSE "pool"

\* lines 180-187: with nothing to process the pool is skipped
AfterFilter(todo) == IF todo = {} THEN "close" ELSE "pool"

\* the runs are numbered in the order in which they start
Started(r) == \A q \in Runs : q < r => pc[q] # "idle"

\* lines 171-188: setup, load, snapshot of the processed URLs, filter, and
\* the submission of every URL to process
Start(r, w, content) ==
    /\ pc[r] = "idle"
    /\ Started(r)
    /\ content # Missing
    /\ LET us == load_urls(content)
           processed == get_processed_urls(db)
           todo == UrlsToProcess(us, processed)
       IN  /\ workers' = [workers EXCEPT ![r] = w]
           /\ urls' = [urls EXCEPT ![r] = us]
           /\ processed_urls' = [processed_urls EXCEPT ![r] = processed]
           /\ urls_to_process' = [urls_to_process EXCEPT ![r] = todo]
           /\ threads' = [threads EXCEPT ![r] = PoolThreads(w, Cardinality(todo))]
           /\ fstate' = [fstate EXCEPT ![r] =
                            [u \in Urls |-> IF u \in todo THEN "queued" ELSE "none"]]
           /\ stdout' = [stdout EXCEPT ![r] =
                            Append(@, IF todo = {} THEN AllProcessed
                                      ELSE Starting(Cardinality(todo)))]
           /\ pc' = [pc EXCEPT ![r] = AfterFilter(todo)]
    /\ url_file' = [url_file EXCEPT ![r] = "read"]
    /\ pred' = [pred EXCEPT ![r] = {q \in Runs : pc[q] = "done"}]
    /\ UNCHANGED <<db, fresult, yielded, cstate, txn, errlog, csv, committed,
                   lastWrite>>
    /\ UNCHANGED <<loadvars>>

\* the error of open() swallowed: the run goes on with no URL
StartMissing_empty(r) ==
    /\ pc[r] = "idle"
    /\ Started(r)
    /\ pc' = [pc EXCEPT ![r] = "close"]
    /\ url_file' = [url_file EXCEPT ![r] = "missing"]
    /\ UNCHANGED <<db, workers, urls, processed_urls, urls_to_process, threads,
                   fstate, fresult, yielded, cstate, txn, errlog, csv,
                   committed, lastWrite, pred>>
    /\ UNCHANGED <<stdout, loadvars>>

\* line 174 raising: the file is missing or unreadable
StartMissing(r) ==
    /\ pc[r] = "idle"
    /\ Started(r)
    /\ pc' = [pc EXCEPT ![r] = "aborted"]
    /\ url_file' = [url_file EXCEPT ![r] = "missing"]
    /\ UNCHANGED <<db, workers, urls, processed_urls, urls_to_process, threads,
                   fstate, fresult, yielded, cstate, txn, errlog, csv,
                   committed, lastWrite, pred>>
    /\ UNCHANGED <<stdout, loadvars>>

\* a free worker thread takes a queued call of process_url
WorkerStart(r, u) ==
    /\ pc[r] = "pool"
    /\ fstate[r][u] = "queued"
    /\ Cardinality(InFlight(r)) < threads[r]
    /\ fstate' = [fstate EXCEPT ![r][u] = "running"]
    /\ UNCHANGED <<db, pc, workers, urls, processed_urls, urls_to_process,
                   threads, fresult, yielded, cstate, txn, errlog, csv,
                   committed, lastWrite, pred>>
    /\ UNCHANGED <<stdout, url_file, loadvars>>

\* process_url saving its own result from the worker thread
WorkerFinish_writes(r, u, resp) ==
    /\ pc[r] = "pool"
    /\ fstate[r][u] = "running"
    /\ fstate' = [fstate EXCEPT ![r][u] = "finished"]
    /\ fresult' = [fresult EXCEPT ![r][u] = process_url(u, resp)]
    /\ db' = IF process_url(u, resp).raised THEN db
             ELSE save_result(db, Row(u, process_url(u, resp).script_count,
                                      process_url(u, resp).status))
    /\ UNCHANGED <<pc, workers, urls, processed_urls, urls_to_process,
                   threads, yielded, cstate, txn, errlog, csv, committed,
                   lastWrite, pred>>
    /\ UNCHANGED <<stdout, url_file, loadvars>>

\* process_url ends: the future holds its return value or its exception
WorkerFinish(r, u, resp) ==
    /\ pc[r] = "pool"
    /\ fstate[r][u] = "running"
    /\ fstate' = [fstate EXCEPT ![r][u] = "finished"]
    /\ fresult' = [fresult EXCEPT ![r][u] = process_url(u, resp)]
    /\ UNCHANGED <<db, pc, workers, urls, processed_urls, urls_to_process,
                   threads, yielded, cstate, txn, errlog, csv, committed,
                   lastWrite, pred>>
    /\ UNCHANGED <<stdout, url_file, loadvars>>

\* the write lock of the database file: one connection at a time holds an
\* open write transaction
LockFree(r) == \A q \in Runs \ {r} : txn[q] = <<>>

\* the loop without conn.commit(): the results stay in one open transaction
CollectSave_batch(r, u) ==
    /\ pc[r] = "pool" /\ cstate[r] = "wait"
    /\ fstate[r][u] = "finished" /\ u \notin yielded[r]
    /\ ~fresult[r][u].raised
    /\ LockFree(r)
    /\ yielded' = [yielded EXCEPT ![r] = @ \cup {u}]
    /\ txn' = [txn EXCEPT ![r] =
                  Append(@, Row(fresult[r][u].url, fresult[r][u].script_count,
                                fresult[r][u].status))]
    /\ UNCHANGED <<db, pc, workers, urls, processed_urls, urls_to_process,
                   threads, fstate, fresult, cstate, errlog, csv, committed,
                   lastWrite, pred>>
    /\ UNCHANGED <<stdout, url_file, loadvars>>

\* lines 189-193, future.result() returns: REPLACE INTO is executed
CollectSave(r, u) ==
    /\ pc[r] = "pool" /\ cstate[r] = "wait"
    /\ fstate[r][u] = "finished" /\ u \notin yielded[r]
    /\ ~fresult[r][u].raised
    /\ LockFree(r)
    /\ yielded' = [yielded EXCEPT ![r] = @ \cup {u}]
    /\ txn' = [txn EXCEPT ![r] =
                  Append(@, Row(fresult[r][u].url, fresult[r][u].script_count,
                                fresult[r][u].status))]
    /\ cstate' = [cstate EXCEPT ![r] = "commit"]
    /\ UNCHANGED <<db, pc, workers, urls, processed_urls, urls_to_process,
                   threads, fstate, fresult, errlog, csv, committed,
                   lastWrite, pred>>
    /\ UNCHANGED <<stdout, url_file, loadvars>>

\* the loop without its try/except: the exception leaves main()
CollectRaised_abort(r, u) ==
    /\ pc[r] = "pool" /\ cstate[r] = "wait"
    /\ fstate[r][u] = "finished" /\ u \notin yielded[r]
    /\ fresult[r][u].raised
    /\ yielded' = [yielded EXCEPT ![r] = @ \cup {u}]
    /\ errlog' = [errlog EXCEPT ![r] = @ \cup {<<u, "process_url">>}]
    /\ pc' = [pc EXCEPT ![r] = "aborted"]
    /\ UNCHANGED <<db, workers, urls, processed_urls, urls_to_process,
                   threads, fstate, fresult, cstate, txn, csv, committed,
                   lastWrite, pred>>
    /\ UNCHANGED <<stdout, url_file, loadvars>>

\* the except branch saving a Failed row for the URL
CollectRaised_failed(r, u) ==
    /\ pc[r] = "pool" /\ cstate[r] = "wait"
    /\ fstate[r][u] = "finished" /\ u \notin yielded[r]
    /\ fresult[r][u].raised
    /\ LockFree(r)
    /\ yielded' = [yielded EXCEPT ![r] = @ \cup {u}]
    /\ errlog' = [errlog EXCEPT ![r] = @ \cup {<<u, "process_url">>}]
    /\ txn' = [txn EXCEPT ![r] = Append(@, Row(u, None, "Failed"))]
    /\ cstate' = [cstate EXCEPT ![r] = "commit"]
    /\ UNCHANGED <<db, pc, workers, urls, processed_urls, urls_to_process,
                   threads, fstate, fresult, csv, committed,
                   lastWrite, pred>>
    /\ UNCHANGED <<stdout, url_file, loadvars>>

\* lines 189-196, future.result() raises: the error is logged
CollectRaised(r, u) ==
    /\ pc[r] = "pool" /\ cstate[r] = "wait"
    /\ fstate[r][u] = "finished" /\ u \notin yielded[r]
    /\ fresult[r][u].raised
    /\ yielded' = [yielded EXCEPT ![r] = @ \cup {u}]
    /\ errlog' = [errlog EXCEPT ![r] = @ \cup {<<u, "process_url">>}]
    /\ UNCHANGED <<db, pc, workers, urls, processed_urls, urls_to_process,
                   threads, fstate, fresult, cstate, txn, csv, committed,
                   lastWrite, pred>>
    /\ UNCHANGED <<stdout, url_file, loadvars>>

\* lines 193 and 195-196: cursor.execute raises sqlite3.Error (database
\* locked, disk error): the error is logged, the loop goes on
CollectSaveError(r, u) ==
    /\ pc[r] = "pool" /\ cstate[r] = "wait"
    /\ fstate[r][u] = "finished" /\ u \notin yielded[r]
    /\ ~fresult[r][u].raised
    /\ yielded' = [yielded EXCEPT ![r] = @ \cup {u}]
    /\ errlog' = [errlog EXCEPT ![r] = @ \cup {<<u, "sqlite3">>}]
    /\ UNCHANGED <<db, pc, workers, urls, processed_urls, urls_to_process,
                   threads, fstate, fresult, cstate, txn, csv, committed,
                   lastWrite, pred>>
    /\ UNCHANGED <<stdout, url_file, loadvars>>

\* the URL of the statement the loop is committing
Current(r) == txn[r][Len(txn[r])].url

RECURSIVE LastWrites(_, _, _)
LastWrites(lw, r, stmts) ==
    IF stmts = <<>> THEN lw
    ELSE LastWrites([lw EXCEPT ![Head(stmts).url] =
                        [run |-> r, row |-> Head(stmts)]], r, Tail(stmts))

\* line 194: conn.commit()
Commit(r) ==
    /\ pc[r] = "pool" /\ cstate[r] = "commit"
    /\ db' = ApplyAll(db, txn[r])
    /\ committed' = [committed EXCEPT ![r] =
                        @ \cup {txn[r][i].url : i \in DOMAIN txn[r]}]
    /\ lastWrite' = LastWrites(lastWrite, r, txn[r])
    /\ txn' = [txn EXCEPT ![r] = <<>>]
    /\ cstate' = [cstate EXCEPT ![r] = "wait"]
    /\ UNCHANGED <<pc, workers, urls, processed_urls, urls_to_process, threads,
                   fstate, fresult, yielded, errlog, csv, pred>>
    /\ UNCHANGED <<stdout, url_file, loadvars>>

\* lines 194-196: conn.commit() raises sqlite3.Error: the error is logged,
\* the loop goes on; the transaction stays open or is rolled back
CommitError(r, keep) ==
    /\ pc[r] = "pool" /\ cstate[r] = "commit"
    /\ errlog' = [errlog EXCEPT ![r] = @ \cup {<<Current(r), "sqlite3">>}]
    /\ txn' = [txn EXCEPT ![r] = IF keep THEN @ ELSE <<>>]
    /\ cstate' = [cstate EXCEPT ![r] = "wait"]
    /\ UNCHANGED <<db, pc, workers, urls, processed_urls, urls_to_process,
                   threads, fstate, fresult, yielded, csv, committed,
                   lastWrite, pred>>
    /\ UNCHANGED <<stdout, url_file, loadvars>>

\* the loop left before every future has been handed over
PoolDone_early(r) ==
    /\ pc[r] = "pool" /\ cstate[r] = "wait"
    /\ pc' = [pc EXCEPT ![r] = "close"]
    /\ UNCHANGED <<db, workers, urls, processed_urls, urls_to_process, threads,
                   fstate, fresult, yielded, cstate, txn, errlog, csv,
                   committed, lastWrite, pred>>
    /\ UNCHANGED <<stdout, url_file, loadvars>>

\* as_completed is exhausted and the executor is shut down
PoolDone(r) ==
    /\ pc[r] = "pool" /\ cstate[r] = "wait"
    /\ yielded[r] = urls_to_process[r]
    /\ pc' = [pc EXCEPT ![r] = "close"]
    /\ UNCHANGED <<db, workers, urls, processed_urls, urls_to_process, threads,
                   fstate, fresult, yielded, cstate, txn, errlog, csv,
                   committed, lastWrite, pred>>
    /\ UNCHANGED <<stdout, url_file, loadvars>>

\* line 198: conn.close(); an open transaction is rolled back
Close(r) ==
    /\ pc[r] = "close"
    /\ txn' = [txn EXCEPT ![r] = <<>>]
    /\ pc' = [pc EXCEPT ![r] = "export"]
    /\ UNCHANGED <<db, workers, urls, processed_urls, urls_to_process, threads,
                   fstate, fresult, yielded, cstate, errlog, csv, committed,
                   lastWrite, pred>>
    /\ UNCHANGED <<stdout, url_file, loadvars>>

\* None written as str(None)
CsvField_str(c) == IF c = None THEN "None" ELSE ToString(c)

\* csv.writer: None is written as the empty field, an integer as its digits
CsvField(c) == IF c = None THEN "" ELSE ToString(c)
CsvRow(row) == <<row.url, CsvField(row.script_count), row.status>>
Header == <<"URL", "Script Count", "Status">>

\* export_to_csv: the header, then the rows of SELECT ... FROM results
export_to_csv(table) == <<Header>> \o [i \in DOMAIN table |-> CsvRow(table[i])]

\* lines 200-201
Export(r) ==
    /\ pc[r] = "export"
    /\ csv' = [csv EXCEPT ![r] = export_to_csv(db)]
    /\ stdout' = [stdout EXCEPT ![r] = @ \o <<Exported, Completed>>]
    /\ pc' = [pc EXCEPT ![r] = "done"]
    /\ UNCHANGED <<db, workers, urls, processed_urls, urls_to_process, threads,
                   fstate, fresult, yielded, cstate, txn, errlog, committed,
                   lastWrite, pred>>
    /\ UNCHANGED <<url_file, loadvars>>

\* KeyboardInterrupt or a crash of the process: the connection is dropped
\* with its open transaction, the pool and the loop's variables are gone
Interrupt(r) ==
    /\ pc[r] \in {"pool", "close", "export"}
    /\ pc' = [pc EXCEPT ![r] = "interrupted"]
    /\ stdout' = [stdout EXCEPT ![r] = Append(@, Interrupted)]
    /\ txn' = [txn EXCEPT ![r] = <<>>]
    /\ threads' = [threads EXCEPT ![r] = 0]
    /\ fstate' = [fstate EXCEPT ![r] = [u \in Urls |-> "none"]]
    /\ fresult' = [fresult EXCEPT ![r] = [u \in Urls |-> NoResult]]
    /\ yielded' = [yielded EXCEPT ![r] = {}]
    /\ cstate' = [cstate EXCEPT ![r] = "wait"]
    /\ UNCHANGED <<db, workers, urls, processed_urls, urls_to_process, errlog,
                   csv, committed, lastWrite, pred>>
    /\ UNCHANGED <<url_file, loadvars>>

\* --------------------------------------------- load_urls and the submission
\* lines 79-82: the file is read and split
LoadSplit ==
    /\ lpc = "read"
    /\ split_urls' = split(strip(file_content))
    /\ lpc' = "split"
    /\ UNCHANGED <<file_content, url_list, submit_count, mainvars>>

\* line 84: return list(set(urls))
LoadReturn ==
    /\ lpc = "split"
    /\ url_list' \in load_urls_list(split_urls)
    /\ lpc' = "loaded"
    /\ UNCHANGED <<file_content, split_urls, submit_count, mainvars>>

\* lines 175-188: one call of executor.submit per element of urls_to_process
LoadSubmit ==
    /\ lpc = "loaded"
    /\ LET todo == SelectSeq(url_list,
                             LAMBDA u : u \notin get_processed_urls(db))
       IN  submit_count' =
              [u \in {todo[i] : i \in DOMAIN todo} |->
                  Cardinality({i \in DOMAIN todo : todo[i] = u})]
    /\ lpc' = "submitted"
    /\ UNCHANGED <<file_content, split_urls, url_list, mainvars>>

LoadInit ==
    /\ MainInit
    /\ file_content \in Texts
    /\ split_urls = <<>>
    /\ url_list = <<>>
    /\ submit_count = <<>>
    /\ lpc = "read"

LoadNext == LoadSplit \/ LoadReturn \/ LoadSubmit

SpecLoad == LoadInit /\ [][LoadNext]_vars

Next ==
    \/ \E r \in Runs, w \in 1..MaxWorkers, content \in Files : Start(r, w, content)
    \/ \E r \in Runs : StartMissing(r)
    \/ \E r \in Runs, u \in Urls : WorkerStart(r, u)
    \/ \E r \in Runs, u \in Urls, resp \in Responses : WorkerFinish(r, u, resp)
    \/ \E r \in Runs, u \in Urls : CollectSave(r, u)
    \/ \E r \in Runs, u \in Urls : CollectRaised(r, u)
    \/ \E r \in Runs, u \in Urls : CollectSaveError(r, u)
    \/ \E r \in Runs : Commit(r)
    \/ \E r \in Runs, keep \in BOOLEAN : CommitError(r, keep)
    \/ \E r \in Runs : PoolDone(r)
    \/ \E r \in Runs : Close(r)
    \/ \E r \in Runs : Export(r)
    \/ \E r \in Runs : Interrupt(r)

Spec == Init /\ [][Next]_vars

\* ------------------------------------------------- runs one after the other
\* no run of main() is between its start and its end
Quiet == \A q \in Runs : pc[q] \notin {"pool", "close", "export"}

StartAlone(r, w, content) == Quiet /\ Start(r, w, content)
StartMissingAlone(r) == Quiet /\ StartMissing(r)

SeqNext ==
    \/ \E r \in Runs, w \in 1..MaxWorkers, content \in Files :
          StartAlone(r, w, content)
    \/ \E r \in Runs : StartMissingAlone(r)
    \/ \E r \in Runs, u \in Urls : WorkerStart(r, u)
    \/ \E r \in Runs, u \in Urls, resp \in Responses : WorkerFinish(r, u, resp)
    \/ \E r \in Runs, u \in Urls : CollectSave(r, u)
    \/ \E r \in Runs, u \in Urls : CollectRaised(r, u)
    \/ \E r \in Runs, u \in Urls : CollectSaveError(r, u)
    \/ \E r \in Runs : Commit(r)
    \/ \E r \in Runs, keep \in BOOLEAN : CommitError(r, keep)
    \/ \E r \in Runs : PoolDone(r)
    \/ \E r \in Runs : Close(r)
    \/ \E r \in Runs : Export(r)
    \/ \E r \in Runs : Interrupt(r)

SpecSeq == Init /\ [][SeqNext]_vars

\* ---------------------- runs one after the other that nobody interrupts
\* a step of run r after its start: of a worker thread or of the main thread
RunStep(r) ==
    \/ \E u \in Urls : WorkerStart(r, u)
    \/ \E u \in Urls, resp \in Responses : WorkerFinish(r, u, resp)
    \/ \E u \in Urls : CollectSave(r, u)
    \/ \E u \in Urls : CollectRaised(r, u)
    \/ \E u \in Urls : CollectSaveError(r, u)
    \/ Commit(r)
    \/ \E keep \in BOOLEAN : CommitError(r, keep)
    \/ PoolDone(r)
    \/ Close(r)
    \/ Export(r)

LiveNext ==
    \/ \E r \in Runs, w \in 1..MaxWorkers, content \in Files :
          StartAlone(r, w, content)
    \/ \E r \in Runs : StartMissingAlone(r)
    \/ \E r \in Runs : RunStep(r)

\* every fetch attempt ends and the threads of a run are scheduled
SpecLive == Init /\ [][LiveNext]_vars /\ \A r \in Runs : WF_vars(RunStep(r))

TypeOK ==
    /\ \A r \in Runs : pc[r] \in {"idle", "pool", "close", "export", "done",
                                  "aborted", "interrupted"}
    /\ \A r \in Runs : cstate[r] \in {"wait", "commit"}

\* ------------------------------------------------------------ properties
HasRow(table, u) == RowsOf(table, u) # {}
TheRow(table, u) == table[CHOOSE i \in RowsOf(table, u) : TRUE]
StorageError(r, u) == <<u, "sqlite3">> \in errlog[r]
FetchRaised(r, u) == <<u, "process_url">> \in errlog[r]
Submitted(r) == {u \in Urls : fstate[r][u] # "none"}
PoolOver(r) == pc[r] \in {"close", "export", "done"}

\* C1: the store holds at most one row per URL; every row's status is
\* Success or Failed, a Success row has a script_count >= 0 and a Failed row
\* has none.
C1_RowsWellFormed ==
    /\ \A i, j \in DOMAIN db : db[i].url = db[j].url => i = j
    /\ \A i \in DOMAIN db :
          /\ db[i].status \in {"Success", "Failed"}
          /\ db[i].status = "Success" =>
                db[i].script_count # None /\ db[i].script_count >= 0
          /\ db[i].status = "Failed" => db[i].script_count = None

\* two runs have completed and the store holds a Success and a Failed row
C1_Witness ==
    /\ \A r \in Runs : pc[r] = "done"
    /\ \E i, j \in DOMAIN db : db[i].status = "Success" /\ db[j].status = "Failed"

\* C2: the URLs a run submits to the fetcher are exactly its input minus the
\* URLs stored when it started; the run commits no URL that was stored then,
\* and a commit of the run leaves every row that existed at its start as
\* it was.
C2_Step ==
    \A r \in Runs :
       /\ pc'[r] \in {"pool", "close", "export", "done"} =>
             /\ {u \in Urls : fstate'[r][u] # "none"}
                   = urls'[r] \ processed_urls'[r]
             /\ committed'[r] \cap processed_urls'[r] = {}
       /\ committed'[r] # committed[r] =>
             \A u \in processed_urls[r] :
                 HasRow(db', u) /\ TheRow(db', u) = TheRow(db, u)
C2_FetchOnlyUnprocessed == [][C2_Step]_vars

\* a completed run whose input held a stored URL and a new one it committed
C2_Witness ==
    \E r \in Runs :
       /\ pc[r] = "done"
       /\ urls[r] \cap processed_urls[r] # {}
       /\ urls_to_process[r] # {}
       /\ committed[r] = urls_to_process[r]

\* C3: a second run after a completed first run, on the same input and with
\* the same fetch outcomes (and a store that raised no error), fetches
\* nothing and leaves the store as the first run left it.
C3_Idempotence ==
    \A r1, r2 \in Runs :
       ( /\ r1 \in pred[r2]
         /\ pc[r2] = "done"
         /\ urls[r1] = urls[r2]
         /\ \A u \in Urls : ~StorageError(r1, u) /\ ~StorageError(r2, u)
         /\ \A u \in Submitted(r2) : fresult[r2][u] = fresult[r1][u] )
       => /\ urls_to_process[r2] = {}
          /\ csv[r2] = csv[r1]

\* C4: the fetch attempts in flight never outnumber the configured workers.
C4_BoundedInFlight ==
    \A r \in Runs : Cardinality(InFlight(r)) <= workers[r]

\* one worker, two URLs to process: one in flight, the other waits
C4_Witness ==
    \E r \in Runs :
       /\ workers[r] = 1
       /\ Cardinality(InFlight(r)) = 1
       /\ \E u \in Urls : fstate[r][u] = "queued"

\* C5: an attempt that ends with an unexpected error does not end the run:
\* when the pool is over, every submitted URL has run and has been handed to
\* the loop, and every result the store accepted is committed and stored.
C5_ErrorIsolated ==
    \A r \in Runs :
       /\ pc[r] = "aborted" => errlog[r] = {}
       /\ (PoolOver(r) /\ \E u \in Urls : FetchRaised(r, u)) =>
             \A v \in urls_to_process[r] :
                /\ fstate[r][v] = "finished" /\ v \in yielded[r]
                /\ (~fresult[r][v].raised /\ ~StorageError(r, v)) =>
                      /\ v \in committed[r]
                      /\ HasRow(db, v)
                      /\ lastWrite[v].run = r =>
                            /\ TheRow(db, v).script_count = fresult[r][v].script_count
                            /\ TheRow(db, v).status = fresult[r][v].status

\* a completed run where one attempt raised and the other was committed
C5_Witness ==
    \E r \in Runs, u, v \in Urls :
       /\ pc[r] = "done"
       /\ FetchRaised(r, u)
       /\ v # u /\ v \in committed[r]

\* C6: the fetcher never raises, and every URL whose attempt failed has the
\* row (url, absent, Failed) committed by the run when the run completes.
C6_FailuresBecomeRows ==
    \A r \in Runs :
       pc[r] = "done" =>
          \A u \in urls_to_process[r] :
             (fresult[r][u].raised \/ fresult[r][u].status = "Failed") =>
                /\ ~fresult[r][u].raised
                /\ ~StorageError(r, u) => u \in committed[r]

\* C7: a run in which a write or a commit raised a storage error does not
\* complete normally.
C7_StorageErrorFatal ==
    \A r \in Runs :
       (\E u \in Urls : StorageError(r, u)) => pc[r] \notin {"export", "done"}

\* C8: when the loop takes the next result, every result it took before (and
\* the store accepted) is committed; the rows a run committed and the rows
\* stored at its start stay in the store whatever happens to the run.
C8_IncrementalCommit ==
    \A r \in Runs :
       /\ (pc[r] = "pool" /\ cstate[r] = "wait") =>
             \A u \in yielded[r] :
                (~fresult[r][u].raised /\ ~StorageError(r, u)) =>
                    u \in committed[r]
       /\ \A u \in committed[r] \cup processed_urls[r] : HasRow(db, u)
       /\ \A u \in committed[r] :
             lastWrite[u].run = r => TheRow(db, u) = lastWrite[u].row

\* a run interrupted after it committed one result and before the other
C8_Witness ==
    \E r \in Runs :
       /\ pc[r] = "interrupted"
       /\ committed[r] # {}
       /\ urls_to_process[r] \ committed[r] # {}
       /\ \A u \in committed[r] : HasRow(db, u)

\* C9: a step of a worker thread writes nothing to the store, and the loop
\* begins an upsert only when it has no other upsert-plus-commit in progress,
\* one result at a time.
C9_Step ==
    \A r \in Runs :
       /\ (pc[r] = "pool" /\ pc'[r] = "pool" /\ fstate'[r] # fstate[r]) =>
             db' = db /\ txn' = txn /\ committed' = committed
       /\ Len(txn'[r]) > Len(txn[r]) =>
             /\ cstate[r] = "wait" /\ cstate'[r] = "commit"
             /\ Len(txn'[r]) = Len(txn[r]) + 1
       /\ (db' # db /\ committed'[r] # committed[r]) =>
             cstate[r] = "commit" /\ cstate'[r] = "wait"
C9_SerializedWrites == [][C9_Step]_vars

\* the loop is committing one result while a worker of the run is fetching
C9_Witness ==
    \E r \in Runs :
       /\ pc[r] = "pool" /\ cstate[r] = "commit"
       /\ InFlight(r) # {}

\* C10: whichever runs wrote a URL, the store holds exactly one row for it,
\* and that row is the one of the latest commit.
C10_LastWriteWins ==
    \A u \in Urls :
       lastWrite[u] # NoWrite =>
          /\ Cardinality(RowsOf(db, u)) = 1
          /\ TheRow(db, u) = lastWrite[u].row

\* two overlapping runs fetched the same URL and committed different rows
C10_Witness ==
    \E r1, r2 \in Runs, u \in Urls :
       /\ r1 # r2 /\ r1 \notin pred[r2] /\ r2 \notin pred[r1]
       /\ pc[r1] = "done" /\ pc[r2] = "done"
       /\ u \in committed[r1] \cap committed[r2]
       /\ ~fresult[r1][u].raised /\ ~fresult[r2][u].raised
       /\ fresult[r1][u].status # fresult[r2][u].status
\* the whitespace-separated tokens of a text: the stretches of characters
\* without whitespace that whitespace or the ends of the text delimit
TokensOf(text) ==
    {SubSeq(text, p[1], p[2]) : p \in
        {q \in (1..Len(text)) \X (1..Len(text)) :
            /\ q[1] <= q[2]
            /\ \A k \in q[1]..q[2] : text[k] \notin Whitespace
            /\ q[1] = 1 \/ text[q[1] - 1] \in Whitespace
            /\ q[2] = Len(text) \/ text[q[2] + 1] \in Whitespace}}

\* C11: load_urls returns every whitespace-separated token of the file
\* exactly once and nothing else, and every URL is submitted once.
C11_EachTokenOnce ==
    /\ lpc \in {"loaded", "submitted"} =>
          /\ \A t \in TokensOf(file_content) :
                Cardinality({i \in DOMAIN url_list : url_list[i] = t}) = 1
          /\ \A i \in DOMAIN url_list : url_list[i] \in TokensOf(file_content)
    /\ lpc = "submitted" =>
          /\ DOMAIN submit_count = TokensOf(file_content)
          /\ \A t \in DOMAIN submit_count : submit_count[t] = 1

\* a file with a token that occurs twice and another token, all submitted
C11_Witness ==
    /\ lpc = "submitted"
    /\ Len(split_urls) = 3
    /\ Len(url_list) = 2
CsvUrls(file) == {file[i][1] : i \in 2..Len(file)}

\* C12: the export writes the header row, then one row per row of the
\* store in scan order (1 + number of rows lines), rows of earlier runs
\* included, the count field empty exactly where script_count is absent.
C12_Step ==
    \A r \in Runs :
       (pc[r] = "export" /\ pc'[r] = "done") =>
          /\ Len(csv'[r]) = 1 + Len(db)
          /\ csv'[r][1] = <<"URL", "Script Count", "Status">>
          /\ \A i \in DOMAIN db :
                /\ csv'[r][i + 1][1] = db[i].url
                /\ csv'[r][i + 1][3] = db[i].status
                /\ csv'[r][i + 1][2] = "" <=> db[i].script_count = None
                /\ db[i].script_count # None =>
                      csv'[r][i + 1][2] = ToString(db[i].script_count)
          /\ processed_urls[r] \cup committed[r] \subseteq CsvUrls(csv'[r])
C12_ExportAllRows == [][C12_Step]_vars

\* an export of a row of an earlier run and a row of this run, one of them
\* with no script_count
C12_Witness ==
    \E r \in Runs :
       /\ pc[r] = "done" /\ Len(csv[r]) = 3
       /\ processed_urls[r] # {} /\ committed[r] # {}
       /\ \E i \in 2..3 : csv[r][i][2] = ""
       /\ \E i \in 2..3 : csv[r][i][2] # ""

\* C13: with an empty input file nothing is to process, nothing is fetched
\* or written, the no-work message is printed, the run is not aborted, and
\* its export holds the rows the store already had.
C13_EmptyInput ==
    \A r \in Runs :
       (url_file[r] = "read" /\ urls[r] = {}) =>
          /\ urls_to_process[r] = {} /\ Submitted(r) = {}
          /\ committed[r] = {} /\ txn[r] = <<>> /\ errlog[r] = {}
          /\ stdout[r][1] = Msg("All URLs have been processed.", 0)
          /\ pc[r] \in {"close", "export", "done", "interrupted"}
          /\ pc[r] = "done" =>
                /\ Len(csv[r]) >= 1 + Cardinality(processed_urls[r])
                /\ processed_urls[r] \subseteq CsvUrls(csv[r])
                /\ stdout[r][Len(stdout[r])] = Msg("Processing completed.", 0)

\* a completed run on an empty file against a store that holds a row
C13_Witness ==
    \E r \in Runs :
       /\ url_file[r] = "read" /\ urls[r] = {} /\ pc[r] = "done"
       /\ processed_urls[r] # {} /\ Len(csv[r]) >= 2

\* C14: a run whose URL file is missing or unreadable is aborted: it
\* submits nothing, writes nothing to the store, exports and prints nothing.
C14_MissingFileAborts ==
    \A r \in Runs :
       url_file[r] = "missing" =>
          /\ pc[r] = "aborted"
          /\ Submitted(r) = {} /\ committed[r] = {} /\ txn[r] = <<>>
          /\ \A u \in Urls : lastWrite[u].run # r
          /\ csv[r] = <<>> /\ stdout[r] = <<>>

\* a run aborted on its file while the store holds a row of an earlier run
C14_Witness ==
    \E r \in Runs :
       /\ url_file[r] = "missing" /\ pc[r] = "aborted"
       /\ db # <<>>
\* C15: runs one after the other: a stored row is never deleted and never
\* changes, a run commits a URL at most once, and a URL that has a row
\* (Failed included) is never fetched again.
C15_Step ==
    /\ \A u \in Urls :
          HasRow(db, u) => HasRow(db', u) /\ TheRow(db', u) = TheRow(db, u)
    /\ \A r \in Runs :
          committed'[r] # committed[r] =>
             /\ \A i, j \in DOMAIN txn[r] :
                   txn[r][i].url = txn[r][j].url => i = j
             /\ \A i \in DOMAIN txn[r] : txn[r][i].url \notin committed[r]
    /\ \A r \in Runs, u \in Urls :
          (fstate[r][u] # "running" /\ fstate'[r][u] = "running") =>
             ~HasRow(db, u)
C15_OneShot == [][C15_Step]_vars

\* a later run whose input holds a URL an earlier run stored as Failed: it
\* leaves the URL out and commits another one
C15_Witness ==
    \E r1, r2 \in Runs, u \in Urls :
       /\ r1 \in pred[r2] /\ pc[r2] = "done"
       /\ u \in committed[r1] /\ HasRow(db, u) /\ TheRow(db, u).status = "Failed"
       /\ u \in urls[r2] /\ u \notin urls_to_process[r2]
       /\ committed[r2] # {}

\* C16: runs one after the other: a URL whose attempt raised gets no row
\* from that run, and the next run whose input holds it submits it again.
C16_RaisedIsSkipped ==
    /\ \A r \in Runs, u \in Urls :
          FetchRaised(r, u) =>
             /\ u \notin committed[r]
             /\ \A i \in DOMAIN txn[r] : txn[r][i].url # u
             /\ lastWrite[u].run # r
    /\ \A r1, r2 \in Runs, u \in Urls :
          ( /\ r1 < r2 /\ FetchRaised(r1, u)
            /\ url_file[r2] = "read" /\ pc[r2] # "interrupted"
            /\ u \in urls[r2]
            /\ \A q \in Runs : (r1 < q /\ q < r2) => u \notin urls[q] )
          => fstate[r2][u] # "none"

\* a URL whose attempt raised in one run and was fetched by the next
C16_Witness ==
    \E r1, r2 \in Runs, u \in Urls :
       /\ r1 \in pred[r2] /\ FetchRaised(r1, u)
       /\ ~HasRow(db, u)
       /\ fstate[r2][u] = "finished"
\* C17: when the export starts, every submitted attempt has finished and
\* been handed to the loop, every result the store accepted is committed and
\* the connection has no open transaction; the exported rows include every
\* row the run committed.
C17_ExportAfterPool ==
    \A r \in Runs :
       /\ pc[r] \in {"export", "done"} =>
             /\ \A u \in urls_to_process[r] :
                   /\ fstate[r][u] = "finished" /\ u \in yielded[r]
                   /\ (~fresult[r][u].raised /\ ~StorageError(r, u)) =>
                         u \in committed[r]
             /\ InFlight(r) = {} /\ cstate[r] = "wait" /\ txn[r] = <<>>
       /\ pc[r] = "done" => committed[r] \subseteq CsvUrls(csv[r])

\* a completed run whose export holds the two rows it committed
C17_Witness ==
    \E r \in Runs :
       /\ pc[r] = "done"
       /\ Cardinality(committed[r]) = 2
       /\ committed[r] \subseteq CsvUrls(csv[r])

\* C18: a run that nobody interrupts, whose attempts end and whose threads
\* are scheduled, reaches the end of main(): every submitted URL has been
\* handed to the loop, the export is written and the completion is printed.
C18_RunTerminates ==
    \A r \in Runs :
       (pc[r] \in {"pool", "close", "export"}) ~>
          ( /\ pc[r] = "done"
            /\ yielded[r] = urls_to_process[r]
            /\ csv[r] # <<>>
            /\ stdout[r][Len(stdout[r])] = Msg("Processing completed.", 0) )

\* a completed run that had one worker for two URLs
C18_Witness ==
    \E r \in Runs :
       /\ pc[r] = "done" /\ workers[r] = 1
       /\ Cardinality(urls_to_process[r]) = 2
       /\ yielded[r] = urls_to_process[r]

\* C19: the loop takes each submitted future once, when it has finished,
\* and none is left when the loop ends; the statement it executes is keyed
\* by the URL of that future; a commit of a run adds only keys of its input.
C19_Step ==
    \A r \in Runs :
       /\ (yielded'[r] # yielded[r] /\ pc'[r] # "interrupted") =>
             \E u \in urls_to_process[r] \ yielded[r] :
                /\ yielded'[r] = yielded[r] \cup {u}
                /\ fstate[r][u] = "finished"
                /\ Len(txn'[r]) > Len(txn[r]) =>
                      txn'[r][Len(txn'[r])].url = u
       /\ (cstate[r] = "wait" /\
             (Len(txn'[r]) > Len(txn[r]) \/ errlog'[r] # errlog[r])) =>
             yielded'[r] # yielded[r]
       /\ (pc[r] = "pool" /\ pc'[r] = "close") =>
             yielded[r] = urls_to_process[r]
       /\ committed'[r] \subseteq urls'[r]
       /\ committed'[r] # committed[r] =>
             get_processed_urls(db') \subseteq get_processed_urls(db) \cup urls[r]
C19_CollectedOnce == [][C19_Step]_vars

\* a completed run that submitted two URLs and committed both
C19_Witness ==
    \E r \in Runs :
       /\ pc[r] = "done"
       /\ Cardinality(urls_to_process[r]) = 2
       /\ yielded[r] = urls_to_process[r]
       /\ committed[r] = urls_to_process[r]
       /\ get_processed_urls(db) \subseteq processed_urls[r] \cup urls[r]
====
